---------------------------- MODULE Spec2Model ----------------------------
(***************************************************************************)
(* Model of the Muhtasim-Baby repository: the Gradio placeholder app       *)
(* (app.py: process, build_ui, the __main__ block) and the static info     *)
(* page entry point (web/Space.py: create_interface, main).                *)
(*                                                                         *)
(* One operating-system process is modelled.  It is started on one of the  *)
(* two entry points with some environment, runs the entry point's          *)
(* statements in order, and (for app.py) then handles button clicks.       *)
(***************************************************************************)
EXTENDS Integers, Sequences, FiniteSets, TLC

(***************************************************************************)
(* Bounds of the model.                                                    *)
(***************************************************************************)
MaxEnvLen == 2          \* longest environment-variable value, in characters
MaxStrLen == 2          \* longest text / audio path of a submission
MaxSubmissions == 3     \* how many clicks a behaviour handles

(***************************************************************************)
(* Python values.  None is the empty tuple and a present value v is <<v>>, *)
(* so that an optional value can be compared with None.                    *)
(***************************************************************************)
None == <<>>
Some(v) == <<v>>

\* A str whose characters matter (environment values) is a sequence of
\* one-character strings; an int is its number.
PyStr(s) == [type |-> "str", chars |-> s]
PyInt(n) == [type |-> "int", n |-> n]

\* The outcome of a call: a returned value or a raised exception.
Return(v) == [kind |-> "return", value |-> v]
Raise(e) == [kind |-> "raise", exc |-> e]

(***************************************************************************)
(* Input alphabets.                                                        *)
(***************************************************************************)
EnvChars == {"0", "8", "-", "_", " ", "x"}
TextChars == {"a"}          \* characters of a text value
PathChars == {"/"}          \* characters of an audio path

RECURSIVE CharSeqs(_)
CharSeqs(n) ==
    IF n = 0 THEN {<<>>}
    ELSE CharSeqs(n - 1) \cup {Append(s, c) : s \in CharSeqs(n - 1), c \in EnvChars}

RECURSIVE Strings(_, _)
Strings(chars, n) ==
    IF n = 0 THEN {""}
    ELSE Strings(chars, n - 1) \cup {s \o c : s \in Strings(chars, n - 1), c \in chars}

Optional(S) == {None} \cup {Some(v) : v \in S}

EnvKeys == {"PORT", "HF_SPACE_PORT"}
EnvValues == Optional(CharSeqs(MaxEnvLen))
SampleEnvValues == {None, Some(<<"8", "0">>), Some(<<"x">>)}
TextValues == Optional(Strings(TextChars, MaxStrLen))
AudioPathValues == Optional(Strings(PathChars, MaxStrLen))

(***************************************************************************)
(* int(x), as the port expression uses it: an int is returned as it is; a  *)
(* str is stripped of surrounding whitespace, may carry one sign, and must *)
(* then be decimal digits with single underscores only between digits.     *)
(* Anything else raises ValueError.                                        *)
(***************************************************************************)
Digits == {"0", "1", "2", "3", "4", "5", "6", "7", "8", "9"}
DigitValue ==
    ("0" :> 0) @@ ("1" :> 1) @@ ("2" :> 2) @@ ("3" :> 3) @@ ("4" :> 4) @@
    ("5" :> 5) @@ ("6" :> 6) @@ ("7" :> 7) @@ ("8" :> 8) @@ ("9" :> 9)

RECURSIVE lstrip(_)
lstrip(s) == IF s # <<>> /\ Head(s) = " " THEN lstrip(Tail(s)) ELSE s

RECURSIVE rstrip(_)
rstrip(s) ==
    IF s # <<>> /\ s[Len(s)] = " " THEN rstrip(SubSeq(s, 1, Len(s) - 1)) ELSE s

strip(s) == rstrip(lstrip(s))

IsDecimalLiteral(s) ==
    /\ s # <<>>
    /\ s[1] \in Digits
    /\ s[Len(s)] \in Digits
    /\ \A i \in 1..Len(s) : s[i] \in Digits \cup {"_"}
    /\ \A i \in 1..(Len(s) - 1) : ~(s[i] = "_" /\ s[i + 1] = "_")

RECURSIVE DecimalValue(_, _)
DecimalValue(s, acc) ==
    IF s = <<>> THEN acc
    ELSE IF Head(s) = "_" THEN DecimalValue(Tail(s), acc)
    ELSE DecimalValue(Tail(s), 10 * acc + DigitValue[Head(s)])

int(x) ==
    IF x.type = "int" THEN Return(x.n)
    ELSE LET t == strip(x.chars)
             signed == t # <<>> /\ t[1] \in {"+", "-"}
             body == IF signed THEN Tail(t) ELSE t
         IN  IF ~IsDecimalLiteral(body) THEN Raise("ValueError")
             ELSE IF signed /\ t[1] = "-" THEN Return(0 - DecimalValue(body, 0))
             ELSE Return(DecimalValue(body, 0))

VARIABLES
    entry,       \* the entry point this process was started on
    environ,     \* os.environ, restricted to the two keys that are read
    pc,          \* position of the process in its entry point
    demo,        \* app.py: the Blocks object build_ui returned
    port,        \* app.py: the local variable port of the main block
    interface,   \* web/Space.py: the widget create_interface returned
    server,      \* arguments of the launch call that was made, if any
    out,         \* app.py: value of the Output textbox
    handled,     \* number of clicks handled so far
    log,         \* every (input, result) pair process has produced
    opened       \* file paths the program has opened

vars == <<entry, environ, pc, demo, port, interface, server, out, handled, log, opened>>


(***************************************************************************)
(* app.py                                                                  *)
(***************************************************************************)

\* Truth value of an optional str: None and "" are false.
truthy(v) == v # None /\ v[1] # ""

\* A replacement field of an f-string: str(v).
format(v) == IF v = None THEN "None" ELSE v[1]

FallbackMessage == "Please provide text input or upload an audio file."

\* process with the two tests in the other order.
process_text_first(text, audio_path) ==
    IF truthy(text) THEN Return("Echo: " \o format(text))
    ELSE IF truthy(audio_path) THEN Return("Received audio file at: " \o format(audio_path))
    ELSE Return(FallbackMessage)

\* process testing the audio path with "is not None".
process_audio_not_none(text, audio_path) ==
    IF audio_path # None THEN Return("Received audio file at: " \o format(audio_path))
    ELSE IF truthy(text) THEN Return("Echo: " \o format(text))
    ELSE Return(FallbackMessage)

\* process testing the text with "is not None".
process_text_not_none(text, audio_path) ==
    IF truthy(audio_path) THEN Return("Received audio file at: " \o format(audio_path))
    ELSE IF text # None THEN Return("Echo: " \o format(text))
    ELSE Return(FallbackMessage)

\* process testing the audio path with len(audio_path) > 0.
process_len(text, audio_path) ==
    IF audio_path = None THEN Raise("TypeError")
    ELSE IF audio_path[1] # "" THEN Return("Received audio file at: " \o format(audio_path))
    ELSE IF truthy(text) THEN Return("Echo: " \o format(text))
    ELSE Return(FallbackMessage)

\* process appending each text to what the Output box already shows.
process_accumulates(text, audio_path) ==
    IF truthy(audio_path) THEN Return("Received audio file at: " \o format(audio_path))
    ELSE IF truthy(text) THEN Return((IF out = None THEN "Echo: " ELSE out[1]) \o format(text))
    ELSE Return(FallbackMessage)

process(text, audio_path) ==
    IF truthy(audio_path) THEN Return("Received audio file at: " \o format(audio_path))
    ELSE IF truthy(text) THEN Return("Echo: " \o format(text))
    ELSE Return(FallbackMessage)

\* os.environ.get(key, default)
os_environ_get(key, default) ==
    IF environ[key] = None THEN default ELSE PyStr(environ[key][1])

DefaultPort == 7860

\* The port expression reading HF_SPACE_PORT before PORT.
PortExpression_hf_first ==
    os_environ_get("HF_SPACE_PORT", os_environ_get("PORT", PyInt(DefaultPort)))

\* The argument of int() in the main block.
PortExpression ==
    os_environ_get("PORT", os_environ_get("HF_SPACE_PORT", PyInt(DefaultPort)))

\* demo = build_ui()
app_build_ui ==
    /\ entry = "app"
    /\ pc = "start"
    /\ demo' = Some([title |-> "Muhtasim-Baby", click |-> "process"])
    /\ pc' = "built"
    /\ UNCHANGED <<entry, environ, port, interface, server, out, handled, log, opened>>

\* The port statement catching the ValueError and using the default.
app_resolve_port_fallback ==
    /\ entry = "app"
    /\ pc = "built"
    /\ LET r == int(PortExpression)
       IN  port' = IF r.kind = "return" THEN Some(r.value) ELSE Some(DefaultPort)
    /\ pc' = "resolved"
    /\ UNCHANGED <<entry, environ, demo, interface, server, out, handled, log, opened>>

\* port = int(os.environ.get("PORT", os.environ.get("HF_SPACE_PORT", 7860)))
\* An uncaught ValueError ends the process.
app_resolve_port ==
    /\ entry = "app"
    /\ pc = "built"
    /\ LET r == int(PortExpression)
       IN  IF r.kind = "return"
           THEN port' = Some(r.value) /\ pc' = "resolved"
           ELSE port' = port /\ pc' = "crashed"
    /\ UNCHANGED <<entry, environ, demo, interface, server, out, handled, log, opened>>

\* demo.launch(server_name="0.0.0.0", server_port=port)
app_launch ==
    /\ entry = "app"
    /\ pc = "resolved"
    /\ server' = Some([server_name |-> "0.0.0.0", server_port |-> port[1]])
    /\ pc' = "serving"
    /\ UNCHANGED <<entry, environ, demo, port, interface, out, handled, log, opened>>

\* The click handler opening the uploaded file before answering.
click_opens_file(text, audio_path) ==
    /\ entry = "app"
    /\ pc = "serving"
    /\ handled < MaxSubmissions
    /\ LET r == process(text, audio_path)
       IN  /\ out' = IF r.kind = "return" THEN Some(r.value) ELSE out
           /\ log' = log \cup {[text |-> text, audio_path |-> audio_path, result |-> r]}
    /\ opened' = IF truthy(audio_path) THEN opened \cup {audio_path[1]} ELSE opened
    /\ handled' = handled + 1
    /\ UNCHANGED <<entry, environ, pc, demo, port, interface, server>>

\* btn.click(process, inputs=[txt, aud], outputs=out): one press of Run with
\* the values the two input components hold.
click(text, audio_path) ==
    /\ entry = "app"
    /\ pc = "serving"
    /\ handled < MaxSubmissions
    /\ LET r == process(text, audio_path)
       IN  /\ out' = IF r.kind = "return" THEN Some(r.value) ELSE out
           /\ log' = log \cup {[text |-> text, audio_path |-> audio_path, result |-> r]}
    /\ handled' = handled + 1
    /\ UNCHANGED <<entry, environ, pc, demo, port, interface, server, opened>>

(***************************************************************************)
(* web/Space.py                                                            *)
(***************************************************************************)

\* The HTML document of create_interface, a literal without replacement fields.
html_content == "<!DOCTYPE html><html><head><title>Conscious AI Learning System</title></head></html>"

\* interface = create_interface()
space_create_interface ==
    /\ entry = "space"
    /\ pc = "start"
    /\ interface' = Some([value |-> html_content,
                          label |-> "Conscious AI Learning System",
                          visible |-> FALSE])
    /\ pc' = "created"
    /\ UNCHANGED <<entry, environ, demo, port, server, out, handled, log, opened>>

\* interface.launch(server_name=..., server_port=7860, share=True, ...)
space_launch ==
    /\ entry = "space"
    /\ pc = "created"
    /\ server' = Some([server_name |-> "Conscious AI Learning System",
                       server_port |-> 7860,
                       share |-> TRUE])
    /\ pc' = "serving"
    /\ UNCHANGED <<entry, environ, demo, port, interface, out, handled, log, opened>>

(***************************************************************************)
(* Specifications.                                                         *)
(***************************************************************************)
InitWith(values) ==
    /\ entry \in {"app", "space"}
    /\ environ \in [EnvKeys -> values]
    /\ pc = "start"
    /\ demo = None
    /\ port = None
    /\ interface = None
    /\ server = None
    /\ out = None
    /\ handled = 0
    /\ log = {}
    /\ opened = {}

\* Start-up under every environment up to MaxEnvLen.
InitStart == InitWith(EnvValues)

NextStart ==
    \/ app_build_ui
    \/ app_resolve_port
    \/ app_launch
    \/ space_create_interface
    \/ space_launch

SpecStart == InitStart /\ [][NextStart]_vars

\* Start-up under a few environments, followed by submissions.
Init == InitWith(SampleEnvValues)

Next ==
    \/ NextStart
    \/ \E text \in TextValues, audio_path \in AudioPathValues :
           click(text, audio_path)

Spec == Init /\ [][Next]_vars

TypeOK ==
    /\ entry \in {"app", "space"}
    /\ pc \in {"start", "built", "resolved", "crashed", "created", "serving"}
    /\ handled \in 0..MaxSubmissions
    /\ Cardinality(log) <= handled

(***************************************************************************)
(* Properties of the input router (checked under Spec).                    *)
(***************************************************************************)

\* C1: a submission with a non-empty audio path, whatever its text, is
\* answered with exactly "Received audio file at: " followed by the path.
C1_AudioBranch ==
    \A r \in log :
        truthy(r.audio_path) =>
            r.result = Return("Received audio file at: " \o r.audio_path[1])

\* Both fields non-empty, and a non-empty path with an absent text, were handled.
C1_Witness ==
    /\ \E r \in log : truthy(r.audio_path) /\ truthy(r.text)
    /\ \E r \in log : truthy(r.audio_path) /\ r.text = None

\* C2: a submission with an empty or absent audio path and a non-empty text
\* is answered with exactly "Echo: " followed by the text.
C2_TextBranch ==
    \A r \in log :
        (~truthy(r.audio_path) /\ truthy(r.text)) =>
            r.result = Return("Echo: " \o r.text[1])

\* A text was echoed once with an absent and once with an empty audio path.
C2_Witness ==
    /\ \E r \in log : r.audio_path = None /\ truthy(r.text)
    /\ \E r \in log : r.audio_path = Some("") /\ truthy(r.text)

\* C3: the fixed fallback is the answer exactly when audio path and text are
\* each empty or absent.
C3_Fallback ==
    \A r \in log :
        (~truthy(r.audio_path) /\ ~truthy(r.text)) <=> (r.result = Return(FallbackMessage))

\* The fallback was given for an empty text and for an absent text, and a
\* third submission got another answer.
C3_Witness ==
    /\ \E r \in log : r.text = Some("") /\ r.result = Return(FallbackMessage)
    /\ \E r \in log : r.text = None /\ r.result = Return(FallbackMessage)
    /\ \E r \in log : r.result # Return(FallbackMessage)

\* C7: every call of process returns, and what it returns is a string.
C7_Total ==
    /\ \A r \in log : r.result.kind = "return" /\ r.result.value \in STRING
    /\ handled > 0 => out # None /\ out[1] \in STRING

\* The submission with both fields absent and one with an absent audio path
\* and a text were handled.
C7_Witness ==
    /\ \E r \in log : r.text = None /\ r.audio_path = None
    /\ \E r \in log : r.text # None /\ r.audio_path = None

\* C8: two submissions with the same text and audio path got the same
\* answer, whatever was submitted before or between them.
C8_Stateless ==
    \A r1, r2 \in log :
        (r1.text = r2.text /\ r1.audio_path = r2.audio_path) => r1.result = r2.result

\* Three submissions were handled and two of them had the same input.
C8_Witness ==
    /\ handled = 3
    /\ Cardinality(log) = 2
    /\ \E r \in log : truthy(r.text) /\ ~truthy(r.audio_path)

\* C10: a step that handles a submission changes nothing but the Output box
\* and the record of that submission: environment, port, server, position
\* of the process and the opened files stay as they are, and the answers
\* given to earlier submissions are kept.
C10_Frame ==
    [][handled' # handled =>
          /\ UNCHANGED <<entry, environ, pc, demo, port, interface, server, opened>>
          /\ log \subseteq log']_vars

\* A submission naming an audio file was handled by the listening server.
C10_Witness ==
    /\ handled > 0
    /\ server # None
    /\ port # None
    /\ \E r \in log : truthy(r.audio_path)

(***************************************************************************)
(* Properties of start-up (checked under SpecStart).                       *)
(***************************************************************************)

\* The integer an environment variable holds, None when it is not one.
IntegerValue(key) ==
    LET r == int(PyStr(environ[key][1]))
    IN  IF r.kind = "return" THEN Some(r.value) ELSE None

\* PORT when set, else HF_SPACE_PORT when set, else 7860.
ExpectedPort ==
    IF environ["PORT"] # None THEN IntegerValue("PORT")
    ELSE IF environ["HF_SPACE_PORT"] # None THEN IntegerValue("HF_SPACE_PORT")
    ELSE Some(7860)

\* C4: the port app.py launches its server on is the integer value of PORT
\* when PORT is set, else that of HF_SPACE_PORT when set, else 7860.
C4_PortResolution ==
    (entry = "app" /\ server # None) => Some(server[1].server_port) = ExpectedPort

\* app.py launched with both variables set to different integers.
C4_Witness ==
    /\ entry = "app"
    /\ server # None
    /\ environ["PORT"] # None
    /\ environ["HF_SPACE_PORT"] # None
    /\ IntegerValue("PORT") # IntegerValue("HF_SPACE_PORT")
    /\ IntegerValue("HF_SPACE_PORT") # None

\* C5: whichever entry point was started, the launch is on address 0.0.0.0
\* and on the port resolved from PORT, else HF_SPACE_PORT, else 7860.
C5_EveryEntryPointBinds ==
    server # None =>
        /\ server[1].server_name = "0.0.0.0"
        /\ Some(server[1].server_port) = ExpectedPort

\* C6: when the variable read for the port does not hold an integer, app.py
\* stops at the port statement: no port is set, no launch is made, and the
\* stopped process takes no further step.
C6_Stopped ==
    (entry = "app" /\ ExpectedPort = None) =>
        /\ pc \in {"start", "built", "crashed"}
        /\ port = None
        /\ server = None

C6_MalformedPortIsFatal ==
    /\ []C6_Stopped
    /\ [][pc = "crashed" => pc' = "crashed"]_vars

\* app.py stopped on a malformed PORT although HF_SPACE_PORT holds an integer.
C6_Witness ==
    /\ pc = "crashed"
    /\ environ["PORT"] # None
    /\ environ["HF_SPACE_PORT"] # None
    /\ IntegerValue("HF_SPACE_PORT") # None

\* C9: once web/Space.py has made its launch call, the page is exposed and
\* the document it holds is the fixed HTML string.
C9_StaticPageServed ==
    (entry = "space" /\ pc = "serving") =>
        /\ interface[1].visible
        /\ interface[1].value = html_content

=============================================================================
